---- MODULE Spec2Model ----
(* Background geocoding worker of libertas-travel: the job queue, the worker   *)
(* loop, the recovery scan and the trip status kept in the database, together  *)
(* with the web handlers that enqueue jobs (save, retry) or delete trips.      *)
(* Trips are keyed by their link; a thread's position in its code is a pc.     *)
EXTENDS Integers, Sequences, FiniteSets, TLC

Links == {"t1", "t2"}
Callers == {"c1", "c2"}
Workers == {"w1", "w2"}

MaxOps == 2
MaxItems == 5
MaxPlaces == 2

BreakerThreshold == 3
MAX_GEOCODE_LOCATIONS == 50

\* times are in tenths of a second
NOMINATIM_DELAY == 11
TASK_DELAY == 20

NULL == "null"
NoThread == "none"

VARIABLES
  store,      \* trips table: link -> row
  queue,      \* _geocoding_queue
  thread,     \* _worker_thread
  wpc,        \* position of each worker thread
  wl,         \* locals of each worker thread (current job, mapper, map data)
  cpc,        \* position of each calling thread
  cl,         \* locals of each calling thread
  active,     \* calling threads that exist in this run
  faults,     \* the kinds of call that can raise in this run
  payloads,   \* the itineraries uploaded in this run
  links,      \* the trips the requests of this run are about
  budget,     \* the number of requests served in this run
  backend,    \* USE_POSTGRES
  nops,       \* operations started by callers so far
  jlog,       \* history: one entry per job ever put on the queue
  tc,         \* the process seen with a clock: threads, sleeps, provider calls
  geo,        \* one mapper at work on one itinerary
  conv        \* one stored itinerary on its way through recovery to a job

params == <<active, faults, payloads, links, budget, backend>>

\* what a run of the server fixes at its start
env == <<params, tc, geo, conv>>

\* what a run of the server changes
server == <<store, queue, thread, wpc, wl, cpc, cl, nops, jlog>>

vars == <<store, queue, thread, wpc, wl, cpc, cl, env, nops, jlog>>

----------------------------------------------------------------------------
(* Data *)

\* map data: the job that made them, the items that have a marker, the error
\* text, and the view (center and zoom: the whole world, or fitted to the markers)
NoMap == [job |-> 0, markers |-> {}, view |-> "none", err |-> "none", msg |-> "none"]

NullData == [kind |-> "null", n |-> 0]
EmptyData == [kind |-> "empty", n |-> 0]
DaysData(n) == [kind |-> "days", n |-> n]

\* a row of the trips table; activities stands for the two stored counts,
\* locations and activities
NoTrip == [present |-> FALSE, status |-> "none", error |-> NULL, data |-> NullData, map |-> NoMap,
           activities |-> 0]

Statuses == {"pending", "processing", "ready", "error"}

\* an item of a job payload: does its location already carry coordinates
Unresolved(n) == [i \in 1..n |-> FALSE]

\* the itineraries the parsers and the handlers build: no location carries
\* coordinates yet
AllPayloads == {Unresolved(n) : n \in 0..MaxItems}

FaultKinds == {"db", "payload", "mapper"}

NoJob == [id |-> 0, link |-> "none", items |-> <<>>, src |-> "none"]


IdleLocals ==
  [job |-> NoJob, coords |-> <<>>, k |-> 0, fail |-> 0, kept |-> {}, map |-> NoMap,
   snap |-> NullData, exc |-> "none"]

IdleCaller == [link |-> "none", items |-> <<>>, scan |-> <<>>]

Min(a, b) == IF a <= b THEN a ELSE b

----------------------------------------------------------------------------
(* The trips table (database.py) *)

\* UPDATE trips SET map_status = ?, map_error = ? WHERE user_id = ? AND link = ?
db_update_trip_map_status(st, link, status, error) ==
  IF st[link].present
    THEN [st EXCEPT ![link].status = status, ![link].error = error]
    ELSE st

\* a status write that writes nothing
update_trip_map_status_skipped(st, link, status, error) == st

\* geocoding_worker.update_trip_map_status: owner lookup, then the UPDATE
update_trip_map_status(st, link, status, error) ==
  IF st[link].present
    THEN db_update_trip_map_status(st, link, status, error)
    ELSE st

\* itinerary_data IS NOT NULL (map_data is a key of itinerary_data)
NotNull(row) == row.data.kind # "null" \/ row.map.job # 0

\* Python truth value of the itinerary_data dict
Truthy(row) == row.data.kind = "days" \/ row.map.job # 0

\* a query that leaves out the trips a job was working on
get_pending_geocoding_trips_pending_only(st, be) ==
  {l \in Links : st[l].present /\ st[l].status = "pending" /\ NotNull(st[l])}

\* a query without the status filter
get_pending_geocoding_trips_any_status(st, be) ==
  {l \in Links : st[l].present /\ NotNull(st[l])}

\* WHERE map_status IN ('pending', 'processing') AND itinerary_data IS NOT NULL
\* (the SQLite branch also drops rows whose decoded data is empty)
get_pending_geocoding_trips(st, be) ==
  {l \in Links :
     /\ st[l].present
     /\ st[l].status \in {"pending", "processing"}
     /\ NotNull(st[l])
     /\ (be = "sqlite" => Truthy(st[l]))}

\* INSERT ... ON CONFLICT DO UPDATE (PostgreSQL keeps map_error of an existing
\* row) or INSERT OR REPLACE (SQLite writes a fresh row)
add_trip(st, be, link, status, data, activities) ==
  [st EXCEPT ![link] =
     [present |-> TRUE, status |-> status,
      error |-> IF be = "postgres" /\ st[link].present THEN st[link].error ELSE NULL,
      data |-> data, map |-> NoMap, activities |-> activities]]

delete_trip(st, link) == [st EXCEPT ![link] = NoTrip]

\* UPDATE trips SET itinerary_data = ?, locations = ?, activities = ? ... with
\* the map data put under map_data; the counts are taken from the list under
\* the key `items`, which data with days and ideas do not have
update_trip_itinerary_data(st, link, data, map) ==
  IF st[link].present
    THEN [st EXCEPT ![link].data = data, ![link].map = map, ![link].activities = 0]
    ELSE st

----------------------------------------------------------------------------
(* Payload conversions *)

\* number of items under days and ideas of stored itinerary data
StoredItems(data) == IF data.kind = "days" THEN data.n ELSE 0

\* None for empty data, else the flat item list with every coordinate unset
convert_itinerary_data_to_worker_format(row) ==
  IF ~Truthy(row)
    THEN [ok |-> FALSE, items |-> <<>>]
    ELSE [ok |-> TRUE, items |-> Unresolved(StoredItems(row.data))]

\* handler._convert_to_itinerary followed by serialize_itinerary
convert_to_itinerary(row) == Unresolved(StoredItems(row.data))

----------------------------------------------------------------------------
(* Exceptions: a call made by a job either returns or raises *)

Raising(kind, outcomes) == IF kind \in faults THEN outcomes ELSE {}

\* a call to the store
DbOutcomes == {"ok"} \cup Raising("db", {"raises"})

\* the rest of create_map_data after the geocoding loop
MapperOutcomes == {"ok"} \cup Raising("mapper", {"raises"})

\* the status write and deserialize_itinerary at the start of a job
BeginOutcomes ==
  {"ok"} \cup Raising("db", {"status_raises"}) \cup Raising("payload", {"deserialize_raises"})

\* _geocode_item: a result, no result (timeouts and service errors included), or
\* an exception the geocoder wrapper does not catch
ItemOutcomes == {"hit", "miss"} \cup Raising("mapper", {"raises"})

\* the UPDATE raising inside update_trip_itinerary_data is swallowed there (it
\* returns False); get_db() raising on connect or commit is not
WriteOutcomes == {"ok"} \cup Raising("db", {"swallowed", "raises"})

----------------------------------------------------------------------------
(* The mapper (agents/itinerary/mapper.py) *)

\* items_to_geocode: the indices of the items without coordinates, in order
RECURSIVE ItemsFrom(_, _)
ItemsFrom(items, i) ==
  IF i > Len(items) THEN <<>>
  ELSE (IF items[i] THEN <<>> ELSE <<i>>) \o ItemsFrom(items, i + 1)

items_to_geocode(items) == ItemsFrom(items, 1)

\* a breaker that trips one failure late
BreakerTripped_late(fail) == fail > BreakerThreshold

\* if self._geocode_failures >= 3: break
BreakerTripped(fail) == fail >= BreakerThreshold

\* a loop without the breaker
LoopContinues_to_the_end(l) ==
  l.k <= Min(Len(items_to_geocode(l.job.items)), MAX_GEOCODE_LOCATIONS)

\* the for loop of geocode_locations has another item to hand to _geocode_item
LoopContinues(l) ==
  /\ l.k <= Min(Len(items_to_geocode(l.job.items)), MAX_GEOCODE_LOCATIONS)
  /\ ~BreakerTripped(l.fail)

\* map data that are the same with and without items kept
create_map_data_always_fitted(kept, id) ==
  [job |-> id, markers |-> kept, view |-> "fitted", err |-> "none", msg |-> "none"]

\* create_map_data after geocoding, for the items kept (with coordinates, no
\* home location, no origin flight): a marker for each, center and zoom fitted
\* to them; or center (0, 0), zoom 2, no marker and the error text
create_map_data(kept, id) ==
  IF kept = {}
    THEN [job |-> id, markers |-> {}, view |-> "center 0, 0 zoom 2",
          err |-> "No locations could be geocoded", msg |-> "none"]
    ELSE [job |-> id, markers |-> kept, view |-> "fitted", err |-> "none", msg |-> "none"]

\* regenerate_map_for_trip's map data when create_map_data raised
FallbackMap(id, msg) ==
  [job |-> id, markers |-> {}, view |-> "center 0, 0 zoom 2",
   err |-> "Map could not be generated", msg |-> msg]

----------------------------------------------------------------------------
(* History of the jobs, kept for stating properties *)

NewEntry(link, src) == [link |-> link, src |-> src, runs |-> 0, end |-> "none"]

\* a job put on the queue
Put_nothing(q, link, items, src, id) == q

\* a put at the head of the queue
Put_first(q, link, items, src, id) == <<[id |-> id, link |-> link, items |-> items, src |-> src]>> \o q

\* _geocoding_queue.put((link, itinerary_data))
Put(q, link, items, src, id) == Append(q, [id |-> id, link |-> link, items |-> items, src |-> src])

\* a get that leaves the task on the queue
Dequeue_keeping(q) == q

\* _geocoding_queue.get(): the queue without the task handed out
Dequeue(q) == Tail(q)

----------------------------------------------------------------------------
(* The worker thread (geocoding_worker.py) *)

Alive(w) == wpc[w] \notin {"unborn", "dead"}

\* a loop that lets the exception end the thread
worker_loop_unguarded == "dead"

\* except Exception in _worker_loop: print and take the next task
worker_loop_on_error == "idle"

\* regenerate_map_for_trip has returned or raised: back in _worker_loop
JobEnds(w, next, how) ==
  /\ wpc' = [wpc EXCEPT ![w] = next]
  /\ wl' = [wl EXCEPT ![w] = IdleLocals]
  /\ jlog' = [jlog EXCEPT ![wl[w].job.id].end = how]

\* an error text that does not come from the exception
error_text_constant(exc) == "Geocoding failed"

\* str(e)
error_text(exc) == exc

\* link, itinerary_data = _geocoding_queue.get(timeout=5)
worker_loop_get(w) ==
  /\ wpc[w] = "idle"
  /\ queue # <<>>
  /\ queue' = Dequeue(queue)
  /\ wl' = [wl EXCEPT ![w] = [IdleLocals EXCEPT !.job = Head(queue)]]
  /\ wpc' = [wpc EXCEPT ![w] = "sleep"]
  /\ jlog' = [jlog EXCEPT ![Head(queue).id].runs = @ + 1]
  /\ UNCHANGED <<store, thread, cpc, cl, env, nops>>

\* after time.sleep(2): update_trip_map_status(link, "processing"), then
\* deserialize_itinerary
regenerate_map_for_trip_begin(w) ==
  /\ wpc[w] = "sleep"
  /\ \E o \in BeginOutcomes :
       /\ store' = IF o = "status_raises" THEN store
                   ELSE update_trip_map_status(store, wl[w].job.link, "processing", NULL)
       /\ wl' = [wl EXCEPT ![w] =
                   IF o = "ok"
                     THEN [@ EXCEPT !.coords = wl[w].job.items, !.k = 1]
                     ELSE [@ EXCEPT !.exc = IF o = "status_raises" THEN "db_raises" ELSE o]]
       /\ wpc' = [wpc EXCEPT ![w] = IF o = "ok" THEN "geocode" ELSE "except"]
  /\ UNCHANGED <<queue, thread, cpc, cl, env, nops, jlog>>

\* one turn of the for loop of geocode_locations: _geocode_item on the next item
geocode_item(w) ==
  /\ wpc[w] = "geocode"
  /\ LoopContinues(wl[w])
  /\ \E o \in ItemOutcomes :
       LET l == wl[w]
           i == items_to_geocode(l.job.items)[l.k] IN
       /\ wl' = [wl EXCEPT ![w] =
            IF o = "hit"
              THEN [l EXCEPT !.coords[i] = TRUE, !.fail = 0, !.k = l.k + 1]
            ELSE IF o = "miss"
              THEN [l EXCEPT !.fail = l.fail + 1, !.k = l.k + 1]
            ELSE [l EXCEPT !.k = l.k + 1,
                           !.map = FallbackMap(l.job.id, "create_map_data_raises")]]
       /\ wpc' = [wpc EXCEPT ![w] = IF o = "raises" THEN "store" ELSE "geocode"]
  /\ UNCHANGED <<store, queue, thread, cpc, cl, env, nops, jlog>>

\* the loop is over (list exhausted, limit reached or breaker tripped): the rest of
\* create_map_data keeps the items with coordinates that are no home location
\* and no origin flight (which of the resolved items those are is not told by
\* a payload here) and builds the map data, or raises into the inner except
build_map(w) ==
  /\ wpc[w] = "geocode"
  /\ ~LoopContinues(wl[w])
  /\ \E o \in MapperOutcomes :
     \E kept \in SUBSET {i \in DOMAIN wl[w].coords : wl[w].coords[i]} :
       LET l == wl[w] IN
       wl' = [wl EXCEPT ![w] =
                IF o = "ok"
                  THEN [l EXCEPT !.kept = kept, !.map = create_map_data(kept, l.job.id)]
                  ELSE [l EXCEPT !.map = FallbackMap(l.job.id, "create_map_data_raises")]]
  /\ wpc' = [wpc EXCEPT ![w] = "store"]
  /\ UNCHANGED <<store, queue, thread, cpc, cl, env, nops, jlog>>

\* _store_map_data_in_db: get_trip_owner and get_trip_by_link
store_map_data_read(w) ==
  /\ wpc[w] = "store"
  /\ \E o \in DbOutcomes :
       LET l == wl[w]
           row == store[l.job.link] IN
       /\ wl' = [wl EXCEPT ![w] =
            IF o = "raises" THEN [l EXCEPT !.exc = "db_raises"]
            ELSE [l EXCEPT !.snap = row.data]]
       /\ wpc' = [wpc EXCEPT ![w] =
            IF o = "raises" THEN "except"
            ELSE IF row.present THEN "store_write" ELSE "ready"]
  /\ UNCHANGED <<store, queue, thread, cpc, cl, env, nops, jlog>>

\* _store_map_data_in_db: db.update_trip_itinerary_data with the data read before
store_map_data_write(w) ==
  /\ wpc[w] = "store_write"
  /\ \E o \in WriteOutcomes :
       LET l == wl[w] IN
       /\ store' = IF o = "ok"
                     THEN update_trip_itinerary_data(store, l.job.link, l.snap, l.map)
                     ELSE store
       /\ wl' = [wl EXCEPT ![w] =
            IF o = "raises" THEN [l EXCEPT !.exc = "db_raises"] ELSE l]
       /\ wpc' = [wpc EXCEPT ![w] = IF o = "raises" THEN "except" ELSE "ready"]
  /\ UNCHANGED <<queue, thread, cpc, cl, env, nops, jlog>>

\* update_trip_map_status(link, "ready") and return
regenerate_map_for_trip_ready(w) ==
  /\ wpc[w] = "ready"
  /\ \E o \in DbOutcomes :
       IF o = "ok"
         THEN /\ store' = update_trip_map_status(store, wl[w].job.link, "ready", NULL)
              /\ JobEnds(w, "idle", "ready")
         ELSE /\ store' = store
              /\ wl' = [wl EXCEPT ![w].exc = "db_raises"]
              /\ wpc' = [wpc EXCEPT ![w] = "except"]
              /\ jlog' = jlog
  /\ UNCHANGED <<queue, thread, cpc, cl, env, nops>>

\* except Exception as e: update_trip_map_status(link, "error", str(e)); when that
\* call raises too, the exception reaches _worker_loop
regenerate_map_for_trip_except(w) ==
  /\ wpc[w] = "except"
  /\ \E o \in DbOutcomes :
       IF o = "ok"
         THEN /\ store' = update_trip_map_status(store, wl[w].job.link, "error",
                                                  error_text(wl[w].exc))
              /\ JobEnds(w, "idle", "error")
         ELSE /\ store' = store
              /\ JobEnds(w, worker_loop_on_error, "raised")
  /\ UNCHANGED <<queue, thread, cpc, cl, env, nops>>

----------------------------------------------------------------------------
(* The calling threads (server.py handlers and geocoding_worker's entry points) *)

Idle(c) == c \in active /\ cpc[c] = "ready" /\ nops < budget

\* all orders in which a query without ORDER BY can return the rows S
Orders(S) ==
  {f \in [1..Cardinality(S) -> S] : \A i, j \in 1..Cardinality(S) : i # j => f[i] # f[j]}

\* server.run_server: geocoding_worker.start_worker(), before any request is
\* served
run_server(c) ==
  /\ c \in active
  /\ cpc[c] = "boot"
  /\ cpc' = [cpc EXCEPT ![c] = "start_worker"]
  /\ UNCHANGED <<store, queue, thread, wpc, wl, cl, env, nops, jlog>>

\* upload and import handlers: db.add_trip(... "map_status": "pending" ...), with
\* the itinerary data (JSON import, refused when it has no item) or without
\* them, then queue_geocoding
handle_upload(c, link, items, withData) ==
  /\ Idle(c)
  /\ withData => Len(items) > 0
  /\ store' = add_trip(store, backend, link, "pending",
                       IF withData THEN DaysData(Len(items)) ELSE NullData, Len(items))
  /\ cl' = [cl EXCEPT ![c] = [IdleCaller EXCEPT !.link = link, !.items = items]]
  /\ cpc' = [cpc EXCEPT ![c] = "put"]
  /\ nops' = nops + 1
  /\ UNCHANGED <<queue, thread, wpc, wl, env, jlog>>

\* handle_retry_geocoding: the trip must exist with itinerary data; reset the
\* status to pending, then queue_geocoding
handle_retry_geocoding(c, link) ==
  /\ Idle(c)
  /\ store[link].present
  /\ Truthy(store[link])
  /\ store' = db_update_trip_map_status(store, link, "pending", NULL)
  /\ cl' = [cl EXCEPT ![c] =
              [IdleCaller EXCEPT !.link = link, !.items = convert_to_itinerary(store[link])]]
  /\ cpc' = [cpc EXCEPT ![c] = "put"]
  /\ nops' = nops + 1
  /\ UNCHANGED <<queue, thread, wpc, wl, env, jlog>>

\* handle_delete_trip: db.delete_trip
handle_delete_trip(c, link) ==
  /\ Idle(c)
  /\ store[link].present
  /\ store' = delete_trip(store, link)
  /\ nops' = nops + 1
  /\ UNCHANGED <<queue, thread, wpc, wl, cpc, cl, env, jlog>>

\* handle_save_trip, save_trip_handler: db.update_trip_itinerary_data with the
\* itinerary data of the request (the editor's days and ideas, without map data)
handle_save_trip(c, link, data) ==
  /\ Idle(c)
  /\ store' = update_trip_itinerary_data(store, link, data, NoMap)
  /\ nops' = nops + 1
  /\ UNCHANGED <<queue, thread, wpc, wl, cpc, cl, env, jlog>>

\* queue_geocoding: _geocoding_queue.put((link, itinerary_data))
queue_geocoding(c) ==
  /\ cpc[c] = "put"
  /\ queue' = Put(queue, cl[c].link, cl[c].items, "enqueue", Len(jlog) + 1)
  /\ jlog' = Append(jlog, NewEntry(cl[c].link, "enqueue"))
  /\ cpc' = [cpc EXCEPT ![c] = "start_worker"]
  /\ UNCHANGED <<store, thread, wpc, wl, cl, env, nops>>

\* start_worker: if _worker_thread is None or not _worker_thread.is_alive()
start_worker_check(c) ==
  /\ cpc[c] = "start_worker"
  /\ cpc' = [cpc EXCEPT ![c] =
       IF thread = NoThread \/ ~Alive(thread) THEN "create_thread" ELSE "ready"]
  /\ UNCHANGED <<store, queue, thread, wpc, wl, cl, env, nops, jlog>>

\* start_worker: _worker_thread = threading.Thread(...); _worker_thread.start()
start_worker_thread(c) ==
  /\ cpc[c] = "create_thread"
  /\ \E v \in Workers : wpc[v] = "unborn"
  /\ LET w == CHOOSE v \in Workers : wpc[v] = "unborn" IN
       /\ thread' = w
       /\ wpc' = [wpc EXCEPT ![w] = "idle"]
  /\ cpc' = [cpc EXCEPT ![c] = "probe"]
  /\ UNCHANGED <<store, queue, wl, cl, env, nops, jlog>>

\* start_worker: _test_geocoding_connectivity() in the calling thread, then
\* recover_stale_tasks: pending_trips = db.get_pending_geocoding_trips(); the
\* query raising is caught and logged
recover_stale_tasks_scan(c) ==
  /\ cpc[c] = "probe"
  /\ \E o \in DbOutcomes :
       IF o = "ok"
         THEN \E f \in Orders(get_pending_geocoding_trips(store, backend)) :
                /\ cl' = [cl EXCEPT ![c].scan =
                            [i \in DOMAIN f |-> [link |-> f[i], row |-> store[f[i]]]]]
                /\ cpc' = [cpc EXCEPT ![c] = "requeue"]
         ELSE /\ cl' = cl
              /\ cpc' = [cpc EXCEPT ![c] = "ready"]
  /\ UNCHANGED <<store, queue, thread, wpc, wl, env, nops, jlog>>

\* the jobs recover_stale_tasks puts for the rows it read, in order
RECURSIVE Requeued(_, _, _)
Requeued(scan, i, id) ==
  IF i > Len(scan) THEN <<>>
  ELSE LET wd == convert_itinerary_data_to_worker_format(scan[i].row) IN
       IF wd.ok
         THEN <<[id |-> id, link |-> scan[i].link, items |-> wd.items, src |-> "recover"]>>
              \o Requeued(scan, i + 1, id + 1)
         ELSE Requeued(scan, i + 1, id)

\* recover_stale_tasks: the for loop over pending_trips
recover_stale_tasks_requeue(c) ==
  /\ cpc[c] = "requeue"
  /\ LET jobs == Requeued(cl[c].scan, 1, Len(jlog) + 1) IN
       /\ queue' = queue \o jobs
       /\ jlog' = jlog \o [i \in 1..Len(jobs) |-> NewEntry(jobs[i].link, "recover")]
  /\ cl' = [cl EXCEPT ![c] = IdleCaller]
  /\ cpc' = [cpc EXCEPT ![c] = "ready"]
  /\ UNCHANGED <<store, thread, wpc, wl, env, nops>>

----------------------------------------------------------------------------
(* The process seen with a clock: the thread that runs run_server, the      *)
(* worker thread, their sleeps and their calls to the geocoding provider    *)

IdleGeo == [pc |-> "off"]

IdleConv == [pc |-> "off"]

\* tc.since   time since the last call to the provider by any thread
\* tc.elapsed time.time() - mapper._last_geocode_time, up to NOMINATIM_DELAY
\* tc.sleep   what is left of the worker's time.sleep
\* tc.ncalls  calls to the provider so far; tc.seen: the call that last set
\*            the clock of the worker's mapper (0: none); tc.mingap: the
\*            smallest interval between two consecutive calls so far
IdleClock ==
  [bpc |-> "off", wpc |-> "unborn", queued |-> 0, jobs |-> 0, calls |-> 0,
   since |-> TASK_DELAY, elapsed |-> NOMINATIM_DELAY, sleep |-> 0,
   ncalls |-> 0, seen |-> 0, mingap |-> TASK_DELAY, by |-> "none"]

\* a request to the provider leaves the caller's process
ProviderCall(c, who) ==
  [c EXCEPT !.mingap = IF c.ncalls > 0 THEN Min(c.mingap, c.since) ELSE @,
            !.since = 0,
            !.ncalls = @ + 1,
            !.by = who]

\* ItineraryMapper.__init__: _last_geocode_time = 0, far in the past
mapper_init(c) == [c EXCEPT !.elapsed = NOMINATIM_DELAY, !.seen = 0]

throttle_sleep_none(elapsed) == 0

\* the time _do_geocode sleeps before its request
throttle_sleep(elapsed) == IF elapsed < NOMINATIM_DELAY THEN NOMINATIM_DELAY - elapsed ELSE 0

\* a tenth of a second passes
Tick ==
  /\ tc.bpc # "off"
  /\ tc.since < TASK_DELAY \/ tc.elapsed < NOMINATIM_DELAY \/ tc.sleep > 0
  /\ tc' = [tc EXCEPT !.since = Min(@ + 1, TASK_DELAY),
                      !.elapsed = Min(@ + 1, NOMINATIM_DELAY),
                      !.sleep = IF @ > 0 THEN @ - 1 ELSE 0]
  /\ UNCHANGED <<server, params, geo, conv>>

\* start_worker, called by run_server: the thread is started first
timed_start_worker ==
  /\ tc.bpc = "boot"
  /\ tc' = [tc EXCEPT !.bpc = "probe", !.wpc = "get"]
  /\ UNCHANGED <<server, params, geo, conv>>

\* _test_geocoding_connectivity: one request to Nominatim, with no clock read
\* or set (the request to Photon that follows goes to another service)
timed_test_geocoding_connectivity ==
  /\ tc.bpc = "probe"
  /\ tc' = [ProviderCall(tc, "probe") EXCEPT !.bpc = "recover"]
  /\ UNCHANGED <<server, params, geo, conv>>

\* recover_stale_tasks: the jobs an earlier run has left are put on the queue
timed_recover_stale_tasks ==
  /\ tc.bpc = "recover"
  /\ \E n \in 0..MaxOps :
       tc' = [tc EXCEPT !.bpc = "serve", !.queued = n]
  /\ UNCHANGED <<server, params, geo, conv>>

\* a request handler calls queue_geocoding; the worker is alive
timed_queue_geocoding ==
  /\ tc.bpc = "serve"
  /\ tc.queued + tc.jobs < MaxOps
  /\ tc' = [tc EXCEPT !.queued = @ + 1]
  /\ UNCHANGED <<server, params, geo, conv>>

\* _worker_loop: a job is taken, then time.sleep(2)
timed_worker_loop_get ==
  /\ tc.wpc = "get"
  /\ tc.queued > 0
  /\ tc' = [tc EXCEPT !.wpc = "sleep", !.queued = @ - 1, !.jobs = @ + 1,
                      !.sleep = TASK_DELAY]
  /\ UNCHANGED <<server, params, geo, conv>>

\* regenerate_map_for_trip: a new ItineraryMapper for the job
timed_regenerate_map_for_trip ==
  /\ tc.wpc = "sleep"
  /\ tc.sleep = 0
  /\ tc' = [mapper_init(tc) EXCEPT !.wpc = "job", !.calls = 0]
  /\ UNCHANGED <<server, params, geo, conv>>

\* _do_geocode, up to its sleep: the mapper's clock is read
timed_do_geocode_throttle ==
  /\ tc.wpc = "job"
  /\ tc.calls < MaxItems
  /\ tc' = [tc EXCEPT !.wpc = "throttle", !.sleep = throttle_sleep(tc.elapsed)]
  /\ UNCHANGED <<server, params, geo, conv>>

\* _do_geocode, after its sleep: the mapper's clock is set and the request made
timed_do_geocode_request ==
  /\ tc.wpc = "throttle"
  /\ tc.sleep = 0
  /\ tc' = [ProviderCall(tc, "mapper") EXCEPT !.wpc = "job", !.calls = @ + 1,
                                             !.elapsed = 0, !.seen = tc.ncalls + 1]
  /\ UNCHANGED <<server, params, geo, conv>>

\* the job ends and the worker is back at the queue
timed_job_end ==
  /\ tc.wpc = "job"
  /\ tc' = [tc EXCEPT !.wpc = "get"]
  /\ UNCHANGED <<server, params, geo, conv>>

NextClock ==
  \/ Tick
  \/ timed_start_worker
  \/ timed_test_geocoding_connectivity
  \/ timed_recover_stale_tasks
  \/ timed_queue_geocoding
  \/ timed_worker_loop_get
  \/ timed_regenerate_map_for_trip
  \/ timed_do_geocode_throttle
  \/ timed_do_geocode_request
  \/ timed_job_end

----------------------------------------------------------------------------
(* One mapper at work on one itinerary (agents/itinerary/mapper.py): the    *)
(* queries built for an item, the requests made for them, the failure       *)
(* counter and the markers.  A text is a sequence of words; one text is     *)
(* contained in another as a run of whole words.                            *)

\* str.lower, word by word
lower(s) ==
  LET Lower(w) ==
      CASE w = "Rome" -> "rome"
        [] w \in {"Roma", "ROMA"} -> "roma"
        [] w = "Cafe" -> "cafe"
        [] w = "Airport" -> "airport"
        [] w = "International" -> "international"
        [] w = "Italy" -> "italy"
        [] w = "Vienna" -> "vienna"
        [] w = "Trastevere" -> "trastevere"
        [] w = "Flight" -> "flight"
        [] w = "Fiumicino" -> "fiumicino"
        [] w = "FCO" -> "fco"
        [] w = "(FCO)" -> "(fco)"
        [] w = "VIA" -> "via"
        [] w = "Via" -> "via"
        [] w = "Appia" -> "appia"
        [] w = "Madrid" -> "madrid"
        [] w = "Oxford" -> "oxford"
        [] w = "Wien" -> "wien"
        [] OTHER -> w
  IN [i \in 1..Len(s) |-> Lower(s[i])]

\* t in s
Contains(s, t) == \E i \in 0..(Len(s) - Len(t)) : SubSeq(s, i + 1, i + Len(t)) = t

\* f"{a}, {b}"
Comma(a, b) == a \o <<",">> \o b

\* re.findall(r'\b([A-Z]{3})\b', text): the three-capital codes of a text
RECURSIVE iata_codes(_)
iata_codes(s) ==
  IF s = <<>> THEN <<>>
  ELSE (CASE Head(s) \in {"FCO", "(FCO)"} -> <<"FCO">>
          [] Head(s) = "VIA" -> <<"VIA">>
          [] OTHER -> <<>>) \o iata_codes(Tail(s))

\* _resolve_iata_code: the skip words resolve to "", the other codes to what
\* the language model answers (llm; <<>> when it answers NONE or fails)
resolve_iata_code(iata, llm) ==
  IF iata \in {"THE", "AND", "FOR", "DAY", "VIA", "NON", "ONE", "TWO", "NEW", "OLD"}
  THEN <<>>
  ELSE llm

\* the loop over iata_codes: the first code that resolves, and no other
RECURSIVE first_airport(_, _)
first_airport(codes, llm) ==
  IF codes = <<>> THEN <<>>
  ELSE IF resolve_iata_code(Head(codes), llm) # <<>>
       THEN <<resolve_iata_code(Head(codes), llm)>>
       ELSE first_airport(Tail(codes), llm)

\* re.match(r'^([^(]+)', loc_name), stripped; loc_name.split()[0] without a match
RECURSIVE before_paren(_)
before_paren(s) ==
  IF s = <<>> \/ Head(s) = "(FCO)" THEN <<>> ELSE <<Head(s)>> \o before_paren(Tail(s))

city_of(loc_name) ==
  IF before_paren(loc_name) # <<>> THEN before_paren(loc_name) ELSE <<Head(loc_name)>>

flight_queries_without_city(item, llm) ==
  first_airport(iata_codes(item.title \o item.name), llm)
  \o (IF item.name # <<>> THEN <<item.name>> ELSE <<>>)

\* _geocode_item, the queries of a flight
flight_queries(item, llm) ==
  first_airport(iata_codes(item.title \o item.name), llm)
  \o (IF item.name # <<>>
      THEN <<city_of(item.name) \o <<"International", "Airport">>,
             city_of(item.name) \o <<"Airport">>>>
           \o (IF ~Contains(lower(item.name), <<"airport">>)
               THEN <<item.name \o <<"Airport">>>> ELSE <<>>)
           \o <<item.name>>
      ELSE <<>>)

title_queries_always_combined(item, region_hint) ==
  IF item.title # <<>> /\ item.name # <<>> THEN <<Comma(item.title, item.name)>>
  ELSE <<>>

\* _geocode_item, the queries built from the title of an item that is no flight
title_queries(item, region_hint) ==
  IF item.title # <<>> /\ item.name # <<>>
  THEN IF ~Contains(lower(item.title), lower(item.name))
       THEN <<Comma(item.title, item.name)>>
       ELSE <<item.title>>
  ELSE IF item.title # <<>>
  THEN (IF region_hint # <<>> THEN <<Comma(item.title, region_hint)>> ELSE <<>>)
       \o <<item.title>>
  ELSE <<>>

address_queries_none(item) == <<>>

\* _geocode_item: the address, when there is one, comes first
address_queries(item) == IF item.address # <<>> THEN <<item.address>> ELSE <<>>

\* _geocode_item: the location name, with the region hint and alone
name_queries(item, region_hint) ==
  IF item.name # <<>>
  THEN (IF region_hint # <<>> /\ ~Contains(lower(item.name), lower(region_hint))
        THEN <<Comma(item.name, region_hint)>> ELSE <<>>)
       \o <<item.name>>
  ELSE <<>>

\* _geocode_item: the queries of an item, in the order they are tried
build_queries(item, region_hint, llm) ==
  address_queries(item)
  \o (IF item.category = "flight" THEN flight_queries(item, llm)
      ELSE title_queries(item, region_hint))
  \o name_queries(item, region_hint)

Outcomes == {"found", "zero_results", "timeout", "service_error"}

\* the values _do_geocode returns: None, or the dict of the result it chose
None == [type |-> "NoneType"]
Found == [type |-> "dict", lat |-> "1.0", lng |-> "1.0", address |-> <<"display_name">>]

\* what _do_geocode returns to _geocode_item
do_geocode(outcome) == IF outcome = "found" THEN Found ELSE None

\* a write that replaces the address the item has
geocoded_overwriting(item, result) ==
  [item EXCEPT !.lat = result.lat, !.lng = result.lng, !.address = result.address]

\* _geocode_item on a result: the coordinates, and the address when the item
\* has none
geocoded(item, result) ==
  [item EXCEPT !.lat = result.lat, !.lng = result.lng,
               !.address = IF item.address = <<>> THEN result.address ELSE @]

\* the value, in hundredths of a degree, of a coordinate (written as its
\* decimal text)
hundredths(x) ==
  CASE x = "0.0" -> 0
    [] x = "0.05" -> 5
    [] x = "0.1" -> 10
    [] x = "0.5" -> 50
    [] x = "1.0" -> 100
    [] x = "2.0" -> 200
    [] x = "5.0" -> 500
    [] x = "7.0" -> 700
    [] x = "10.0" -> 1000
    [] x = "12.0" -> 1200

\* a zoom that does not depend on the span
zoom_of_any_span(max_span) == 10

\* create_map_data: the zoom level for a span (in hundredths of a degree)
zoom_of(max_span) ==
  IF max_span > 1000 THEN 5
  ELSE IF max_span > 500 THEN 6
  ELSE IF max_span > 200 THEN 7
  ELSE IF max_span > 100 THEN 8
  ELSE IF max_span > 50 THEN 9
  ELSE IF max_span > 10 THEN 10
  ELSE 12

\* an answer of the language model: a text, or an exception
Says(text) == [type |-> "str", text |-> text]
Fails == [type |-> "Exception"]

\* _extract_destination_with_llm: the answer without quotes and full stops at
\* its ends, "" when nothing is left or it has 100 characters or more
extract_destination_with_llm(answer) ==
  IF answer.type # "str" THEN Fails
  ELSE Says(CASE answer.text = <<"'Vienna'.">> -> <<"Vienna">>
              [] answer.text = <<"(a", "text", "of", "100", "characters)">> -> <<>>
              [] OTHER -> answer.text)

\* a fallback that asks nothing
get_region_hint_fallback_silent(title, answer) == [value |-> <<>>, asked |-> <<>>]

\* _get_region_hint_fallback: no call without a title; the answer when it is
\* not empty, does not say UNKNOWN and has fewer than 50 characters
get_region_hint_fallback(title, answer) ==
  IF title = <<>> THEN [value |-> <<>>, asked |-> <<>>]
  ELSE [value |-> IF answer.type = "str"
                     /\ answer.text \notin {<<"UNKNOWN">>, <<"Unknown">>,
                                             <<"(a", "text", "of", "50", "characters)">>}
                  THEN answer.text ELSE <<>>,
        asked |-> <<[prompt |-> "country", answer |-> answer]>>]

\* a resolver that asks again at every request
get_region_hint_uncached(g, first, second) ==
  LET region == extract_destination_with_llm(first)
  IN IF g.title = <<>> /\ \A i \in DOMAIN g.items : g.items[i].category = "flight"
     THEN [value |-> <<>>, asked |-> <<>>]
     ELSE IF region.type = "str" /\ region.text # <<>>
     THEN [value |-> region.text, asked |-> <<[prompt |-> "destination", answer |-> first]>>]
     ELSE [value |-> get_region_hint_fallback(g.title, second).value,
           asked |-> <<[prompt |-> "destination", answer |-> first]>>
                     \o get_region_hint_fallback(g.title, second).asked]

\* _get_region_hint: the hint and the calls made for it, each with its answer
\* (first, second: what the language model answers to the two prompts)
get_region_hint(g, first, second) ==
  LET region == extract_destination_with_llm(first)
  IN IF g.cached_region_itinerary_id = 1 /\ g.cached_region_hint.type # "NoneType"
     THEN [value |-> g.cached_region_hint.text, asked |-> <<>>]
     ELSE IF g.title = <<>> /\ \A i \in DOMAIN g.items : g.items[i].category = "flight"
     THEN [value |-> <<>>, asked |-> <<>>]
     ELSE IF region.type = "str" /\ region.text # <<>>
     THEN [value |-> region.text, asked |-> <<[prompt |-> "destination", answer |-> first]>>]
     ELSE [value |-> get_region_hint_fallback(g.title, second).value,
           asked |-> <<[prompt |-> "destination", answer |-> first]>>
                     \o get_region_hint_fallback(g.title, second).asked]

\* Location.has_coordinates
has_coordinates(item) == item.lat # NULL /\ item.lng # NULL

\* a list of items to geocode without a limit
to_geocode_all(items) ==
  SelectSeq([i \in 1..Len(items) |-> i], LAMBDA i : ~has_coordinates(items[i]))

\* geocode_locations: the items to geocode, by their place in the itinerary
to_geocode(items) ==
  LET all == SelectSeq([i \in 1..Len(items) |-> i], LAMBDA i : ~has_coordinates(items[i]))
  IN SubSeq(all, 1, Min(Len(all), MAX_GEOCODE_LOCATIONS))

\* t in s for two lowered texts: a word of t may be a part of a word of s
\* ('fco' in 'rome (fco)', 'ord' in 'oxford')
within(t, s) ==
  LET part(p, w) == p = w \/ <<p, w>> \in {<<"fco", "(fco)">>, <<"vie", "vienna">>,
                                           <<"ord", "oxford">>}
  IN \E i \in 0..(Len(s) - Len(t)) : \A j \in 1..Len(t) : part(t[j], s[i + j])

\* _is_origin_flight: the location has the destination in it, or one of the
\* terms listed for a destination
at_destination(location, dest) ==
  LET dest_terms == [vienna |-> {<<"vienna">>, <<"wien">>, <<"vie">>},
                     austria |-> {<<"austria">>, <<"vienna">>, <<"wien">>, <<"vie">>},
                     bratislava |-> {<<"bratislava">>, <<"bts">>},
                     slovakia |-> {<<"slovakia">>, <<"bratislava">>}]
  IN \/ within(dest, location)
     \/ \E key \in DOMAIN dest_terms :
          /\ within(<<key>>, dest)
          /\ \E term \in dest_terms[key] : within(term, location)

\* _is_origin_flight: the location has a home airport or a home city in it
at_home(location) ==
  \E h \in {<<"fco">>, <<"fiumicino">>, <<"jfk">>, <<"lax">>, <<"sfo">>, <<"ord">>,
             <<"lhr">>, <<"cdg">>, <<"ewr">>,
             <<"rome">>, <<"new", "york">>, <<"los", "angeles">>,
             <<"san", "francisco">>, <<"chicago">>, <<"london">>, <<"paris">>} :
    within(h, location)

\* a test that leaves out every flight that is not at the destination
is_origin_flight_unless_at_destination(item, destination) ==
  /\ item.category = "flight"
  /\ ~at_destination(lower(item.name), lower(destination))

\* _is_origin_flight
is_origin_flight(item, destination) ==
  IF item.category # "flight" THEN FALSE
  ELSE IF destination = <<>> THEN FALSE
  ELSE IF at_destination(lower(item.name), lower(destination)) THEN FALSE
  ELSE at_home(lower(item.name))

\* a filter that lets the home locations through
markers_of_with_home(items, destination) ==
  SelectSeq([i \in 1..Len(items) |-> i],
            LAMBDA i : /\ has_coordinates(items[i])
                       /\ ~is_origin_flight(items[i], destination))

\* create_map_data: the items that get a marker, by their place in the itinerary
markers_of(items, destination) ==
  SelectSeq([i \in 1..Len(items) |-> i],
            LAMBDA i : /\ has_coordinates(items[i])
                       /\ ~items[i].home
                       /\ ~is_origin_flight(items[i], destination))

\* map data not built yet
NoMapData == [center |-> [lat |-> <<0, 1>>, lng |-> <<0, 1>>], zoom |-> 0,
              markers |-> <<>>, error |-> "none"]

\* a new mapper (__init__) and the itinerary it is given: a trip with a title,
\* about which the language model names region_hint as the destination and has
\* no answer to the question for the country; the provider may answer a request
\* in any way
NewGeo(items, region_hint, llm) ==
  [pc |-> "start", items |-> items, title |-> <<"Trip">>,
   world |-> [destination |-> {Says(region_hint)}, country |-> {Says(<<>>)}],
   cached_region_hint |-> None, cached_region_itinerary_id |-> 0, asked |-> <<>>,
   hint |-> <<>>, destination |-> <<>>, llm |-> llm, provider |-> Outcomes,
   todo |-> <<>>, k |-> 1, queries |-> <<>>, q |-> 1, outs |-> {},
   failures |-> 0, last |-> [item |-> 0, queries |-> <<>>, outs |-> {}, before |-> 0, after |-> 0],
   map |-> NoMapData, markers |-> <<>>, run |-> 1, first |-> [items |-> <<>>, map |-> NoMapData]]

\* a loop whose counter is not set back by a result
NextItem_never_reset(g, items, failures) ==
  [g EXCEPT !.pc = "loop", !.items = items, !.k = @ + 1,
            !.failures = IF failures = 0 THEN @ ELSE failures,
            !.queries = <<>>, !.q = 1, !.outs = {},
            !.last = [item |-> g.todo[g.k], queries |-> g.queries, outs |-> g.outs,
                      before |-> g.failures, after |-> failures]]

\* the current item is done: the counter is set and the loop goes on
NextItem(g, items, failures) ==
  [g EXCEPT !.pc = "loop", !.items = items, !.k = @ + 1, !.failures = failures,
            !.queries = <<>>, !.q = 1, !.outs = {},
            !.last = [item |-> g.todo[g.k], queries |-> g.queries, outs |-> g.outs,
                      before |-> g.failures, after |-> failures]]

\* geocode_locations, up to its loop: the region hint, then the items to geocode
geo_geocode_locations ==
  /\ geo.pc = "start"
  /\ \E first \in geo.world.destination, second \in geo.world.country :
       LET region_hint == get_region_hint(geo, first, second)
       IN geo' = [geo EXCEPT !.pc = "loop",
                             !.hint = region_hint.value,
                             !.cached_region_hint = Says(region_hint.value),
                             !.cached_region_itinerary_id = 1,
                             !.asked = @ \o region_hint.asked,
                             !.todo = to_geocode(geo.items)]
  /\ UNCHANGED <<server, params, tc, conv>>

\* one turn of the loop of geocode_locations, and _geocode_item up to its
\* first request
geo_geocode_item ==
  /\ geo.pc = "loop"
  /\ IF geo.k > Len(geo.todo) \/ BreakerTripped(geo.failures)
     THEN geo' = [geo EXCEPT !.pc = "map"]
     ELSE LET queries == build_queries(geo.items[geo.todo[geo.k]], geo.hint, geo.llm)
          IN IF queries = <<>>
             THEN geo' = NextItem(geo, geo.items, geo.failures + 1)
             ELSE geo' = [geo EXCEPT !.pc = "try", !.queries = queries, !.q = 1, !.outs = {}]
  /\ UNCHANGED <<server, params, tc, conv>>

\* a loop over the queries that goes on after a result
geo_do_geocode_every_query ==
  /\ geo.pc = "try"
  /\ \E o \in geo.provider :
       LET result == do_geocode(o)
           i == geo.todo[geo.k]
           g == [geo EXCEPT !.outs = @ \cup {o}]
           items == IF result.type = "dict"
                    THEN [geo.items EXCEPT ![i] = geocoded(geo.items[i], result)]
                    ELSE geo.items
       IN IF geo.q < Len(geo.queries)
          THEN geo' = [g EXCEPT !.q = @ + 1, !.items = items]
          ELSE geo' = NextItem(g, items, IF has_coordinates(items[i]) THEN 0 ELSE geo.failures + 1)
  /\ UNCHANGED <<server, params, tc, conv>>

\* _geocode_item: one request; the first result ends the item, the last
\* query without a result counts a failure
geo_do_geocode ==
  /\ geo.pc = "try"
  /\ \E o \in geo.provider :
       LET result == do_geocode(o)
           i == geo.todo[geo.k]
           item == geo.items[i]
           g == [geo EXCEPT !.outs = @ \cup {o}]
       IN IF result.type = "dict"
          THEN geo' = NextItem(g, [geo.items EXCEPT ![i] = geocoded(item, result)], 0)
          ELSE IF geo.q < Len(geo.queries)
          THEN geo' = [g EXCEPT !.q = @ + 1]
          ELSE geo' = NextItem(g, geo.items, geo.failures + 1)
  /\ UNCHANGED <<server, params, tc, conv>>

\* create_map_data: the map data for the items kept, given by their places in
\* the itinerary. A coordinate of the center is a fraction <<sum, count>> of
\* hundredths of a degree.
map_data(items, kept) ==
  LET lats == [j \in 1..Len(kept) |-> hundredths(items[kept[j]].lat)]
      lons == [j \in 1..Len(kept) |-> hundredths(items[kept[j]].lng)]
      RECURSIVE sum(_)
      sum(xs) == IF xs = <<>> THEN 0 ELSE Head(xs) + sum(Tail(xs))
      span(xs) == (CHOOSE x \in {xs[j] : j \in DOMAIN xs} : \A j \in DOMAIN xs : xs[j] <= x)
                  - (CHOOSE x \in {xs[j] : j \in DOMAIN xs} : \A j \in DOMAIN xs : xs[j] >= x)
      max_span == IF span(lats) >= span(lons) THEN span(lats) ELSE span(lons)
  IN IF kept = <<>>
     THEN [center |-> [lat |-> <<0, 1>>, lng |-> <<0, 1>>], zoom |-> 2,
           markers |-> <<>>, error |-> "No locations could be geocoded"]
     ELSE [center |-> [lat |-> <<sum(lats), Len(lats)>>, lng |-> <<sum(lons), Len(lons)>>],
           zoom |-> zoom_of(max_span), markers |-> kept, error |-> "none"]

\* create_map_data, after geocode_locations: the destination, the items kept,
\* the map data
geo_create_map_data ==
  /\ geo.pc = "map"
  /\ \E first \in geo.world.destination, second \in geo.world.country :
       LET destination == get_region_hint(geo, first, second)
           data == map_data(geo.items, markers_of(geo.items, destination.value))
       IN geo' = [geo EXCEPT !.pc = "done",
                             !.destination = destination.value,
                             !.cached_region_hint = Says(destination.value),
                             !.cached_region_itinerary_id = 1,
                             !.asked = @ \o destination.asked,
                             !.map = data,
                             !.markers = data.markers]
  /\ UNCHANGED <<server, params, tc, conv>>

\* a second call that is given a new mapper
geo_create_map_data_again_new_mapper ==
  /\ geo.pc = "done"
  /\ geo.run = 1
  /\ geo' = [geo EXCEPT !.pc = "start", !.run = 2,
                        !.first = [items |-> geo.items, map |-> geo.map],
                        !.cached_region_hint = None, !.cached_region_itinerary_id = 0,
                        !.failures = 0,
                        !.todo = <<>>, !.k = 1,
                        !.last = [item |-> 0, queries |-> <<>>, outs |-> {},
                                  before |-> 0, after |-> 0]]
  /\ UNCHANGED <<server, params, tc, conv>>

\* create_map_data is called again on the same mapper with the same itinerary
geo_create_map_data_again ==
  /\ geo.pc = "done"
  /\ geo.run = 1
  /\ geo' = [geo EXCEPT !.pc = "start", !.run = 2,
                        !.first = [items |-> geo.items, map |-> geo.map],
                        !.todo = <<>>, !.k = 1,
                        !.last = [item |-> 0, queries |-> <<>>, outs |-> {},
                                  before |-> 0, after |-> 0]]
  /\ UNCHANGED <<server, params, tc, conv>>

NextGeo ==
  \/ geo_geocode_locations
  \/ geo_geocode_item
  \/ geo_do_geocode
  \/ geo_create_map_data
  \/ geo_create_map_data_again

\* an item as the parsers and deserialize_itinerary build it
Item(title, name, address, category) ==
  [title |-> title, name |-> name, address |-> address, category |-> category,
   lat |-> NULL, lng |-> NULL, home |-> FALSE]

\* the items by their texts; the address is free text: none, a street, or
\* the words of a title and a name
ItemTexts ==
  LET Titles == {<<>>, <<"Cafe", "Roma">>, <<"Flight", "VIA", "FCO">>, <<"Flight", "to", "Rome">>}
      Names == {<<>>, <<"roma">>, <<"Trastevere">>, <<"Rome", "(FCO)">>, <<"Rome", "Airport">>,
                <<"(FCO)", "Rome">>}
      Addresses == {<<>>, <<"Via", "Appia", "1">>, <<"roma">>, <<"Rome", "Airport">>,
                    <<"Cafe", "Roma", ",", "roma">>}
  IN {Item(t, n, a, c) : t \in Titles, n \in Names, c \in {"flight", "meal"}, a \in Addresses}

\* a place with a title and a name
Place == Item(<<"Cafe", "Roma">>, <<"Trastevere">>, <<>>, "meal")

----------------------------------------------------------------------------
(* Recovery of one stored itinerary: recover_stale_tasks' loop body and the  *)
(* job's deserialize_itinerary (geocoding_worker.py)                         *)

\* itinerary_data as the create handlers store them: days with their items,
\* and the ideas
StoredData(days, ideas) == [kind |-> "itinerary", days |-> days, ideas |-> ideas]

\* the dict _convert_itinerary_data_to_worker_format builds for an item (day
\* number 0: None)
WorkerItem(item, day_number) ==
  [title |-> item.title, category |-> item.category, day_number |-> day_number,
   location_name |-> item.location, location_address |-> NULL,
   location_lat |-> NULL, location_lon |-> NULL, is_home_location |-> FALSE]

\* a conversion that leaves the ideas out
worker_format_without_ideas(data) ==
  LET RECURSIVE of_days(_)
      of_days(days) ==
        IF days = <<>> THEN <<>>
        ELSE [j \in DOMAIN Head(days).items |-> WorkerItem(Head(days).items[j], Head(days).day_number)]
             \o of_days(Tail(days))
  IN IF data.kind # "itinerary" THEN None
     ELSE [type |-> "dict", items |-> of_days(data.days)]

\* _convert_itinerary_data_to_worker_format: None for data that are None or
\* empty, else the items of the days, then the ideas
worker_format(data) ==
  LET RECURSIVE of_days(_)
      of_days(days) ==
        IF days = <<>> THEN <<>>
        ELSE [j \in DOMAIN Head(days).items |-> WorkerItem(Head(days).items[j], Head(days).day_number)]
             \o of_days(Tail(days))
  IN IF data.kind # "itinerary" THEN None
     ELSE [type |-> "dict",
           items |-> of_days(data.days)
                     \o [j \in DOMAIN data.ideas |-> WorkerItem(data.ideas[j], 0)]]

\* deserialize_itinerary: the items of the job's itinerary
deserialize_itinerary(worker_data) ==
  [j \in DOMAIN worker_data.items |->
     LET d == worker_data.items[j]
     IN [title |-> d.title, name |-> d.location_name,
         address |-> IF d.location_address = NULL THEN <<>> ELSE d.location_address,
         category |-> d.category, lat |-> d.location_lat, lng |-> d.location_lon,
         home |-> d.is_home_location]]

\* recover_stale_tasks for one trip: the conversion, and the put when it
\* gave a payload
recover_stale_tasks_convert ==
  /\ conv.pc = "stored"
  /\ LET worker_data == worker_format(conv.data)
     IN conv' = [conv EXCEPT !.pc = IF worker_data = None THEN "skipped" ELSE "queued",
                             !.queued = IF worker_data = None THEN <<>> ELSE <<worker_data>>]
  /\ UNCHANGED <<server, params, tc, geo>>

\* regenerate_map_for_trip: the job's itinerary from its payload
conv_deserialize_itinerary ==
  /\ conv.pc = "queued"
  /\ conv' = [conv EXCEPT !.pc = "job", !.items = deserialize_itinerary(Head(conv.queued))]
  /\ UNCHANGED <<server, params, tc, geo>>

NextConvert ==
  \/ recover_stale_tasks_convert
  \/ conv_deserialize_itinerary

\* a flight with coordinates, by the name of its location
Landed(name) ==
  [Item(<<"Flight", "to", "Vienna">>, name, <<>>, "flight") EXCEPT !.lat = "0.0", !.lng = "1.0"]

\* items as they come back from the store, with or without coordinates:
\* places with and without an address, a home location, flights from home,
\* at the destination and elsewhere
Stops ==
  {[Place EXCEPT !.lat = lat, !.lng = lng] : lat \in {NULL, "0.0"}, lng \in {NULL, "1.0"}}
  \cup {[Place EXCEPT !.lat = "0.0", !.lng = "1.0", !.home = TRUE],
        [Place EXCEPT !.address = <<"Via", "Appia", "1">>],
        [Place EXCEPT !.address = <<"Via", "Appia", "1">>, !.lat = "2.0", !.lng = "7.0"]}
  \cup {Landed(name) : name \in {<<"Rome", "(FCO)">>, <<"Vienna">>, <<"Wien">>, <<"Madrid">>,
                                   <<"Oxford">>}}

----------------------------------------------------------------------------
(* Specifications *)

\* a row left in the table by an earlier run of the server
OldRow(s, d) ==
  [present |-> TRUE, status |-> s, error |-> IF s = "error" THEN "old" ELSE NULL,
   data |-> d, map |-> NoMap, activities |-> StoredItems(d)]

\* (a draft from create_draft_trip is pending with data that have no item)
InitRows ==
  {NoTrip, OldRow("pending", NullData), OldRow("pending", EmptyData),
   OldRow("pending", DaysData(0))}
  \cup {OldRow(s, DaysData(1)) : s \in Statuses}

\* the server's threads and queue before run_server
InitServer ==
  /\ queue = <<>>
  /\ thread = NoThread
  /\ wpc = [w \in Workers |-> "unborn"]
  /\ wl = [w \in Workers |-> IdleLocals]
  /\ cpc = [c \in Callers |-> IF c = "c1" THEN "boot" ELSE "ready"]
  /\ cl = [c \in Callers |-> IdleCaller]
  /\ nops = 0
  /\ jlog = <<>>

\* everything but the trips table
InitProcess ==
  /\ InitServer
  /\ backend \in {"postgres", "sqlite"}
  /\ tc = IdleClock
  /\ geo = IdleGeo
  /\ conv = IdleConv

\* no trip and no request: the server is left aside
Parked ==
  /\ links = {}
  /\ active = {}
  /\ faults = {}
  /\ payloads = {}
  /\ budget = 0
  /\ backend = "sqlite"
  /\ store = [l \in Links |-> NoTrip]
  /\ InitServer

\* the process at the start of run_server, with a clock
InitClock ==
  /\ Parked
  /\ conv = IdleConv
  /\ tc = [IdleClock EXCEPT !.bpc = "boot"]
  /\ geo = IdleGeo

\* the trips an earlier run has left
InitCommon ==
  /\ store \in {st \in [Links -> InitRows] :
                  /\ st["t2"] \in {NoTrip, OldRow("processing", DaysData(1))}
                  /\ \A l \in Links \ links : st[l] = NoTrip}
  /\ InitProcess

\* the server as run_server starts it: one thread serves the requests
\* (HTTPServer); the store and the geocoder answer, a payload may fail to decode
Init ==
  /\ links = Links
  /\ active = {"c1"}
  /\ faults = {"payload"}
  /\ payloads = {Unresolved(1)}
  /\ budget = MaxOps
  /\ InitCommon

\* the same server, serving one request less
InitRecovery ==
  /\ links = Links
  /\ active = {"c1"}
  /\ faults = {"payload"}
  /\ payloads = {Unresolved(1)}
  /\ budget = MaxOps - 1
  /\ InitCommon

\* one trip, and every call a job makes may raise
InitFault ==
  /\ links = {"t1"}
  /\ active = {"c1"}
  /\ faults = FaultKinds
  /\ payloads = {Unresolved(1)}
  /\ budget = MaxOps
  /\ InitCommon

\* a trip left pending by an earlier run, or no trip
LeanStores ==
  {[l \in Links |-> NoTrip],
   [l \in Links |-> IF l = "t1" THEN OldRow("pending", DaysData(1)) ELSE NoTrip]}

\* one trip, a second thread calling into the module while the first starts
\* it, one request less
InitConc ==
  /\ links = {"t1"}
  /\ active = Callers
  /\ faults = {"payload"}
  /\ payloads = {Unresolved(1)}
  /\ budget = MaxOps - 1
  /\ store \in LeanStores
  /\ InitProcess

\* one trip, left pending with an itinerary of any length or created by an
\* upload of one, and a single request
InitJob ==
  /\ links = {"t1"}
  /\ active = {"c1"}
  /\ faults = {"payload"}
  /\ payloads = AllPayloads
  /\ budget = 1
  /\ store \in {[l \in Links |-> NoTrip]}
                 \cup {[l \in Links |-> IF l = "t1" THEN OldRow("pending", DaysData(n)) ELSE NoTrip] :
                         n \in 0..MaxItems}
  /\ InitProcess

\* one trip, every call a job makes may raise, one request less
InitLive ==
  /\ links = {"t1"}
  /\ active = {"c1"}
  /\ faults = FaultKinds
  /\ payloads = {Unresolved(1)}
  /\ budget = MaxOps - 1
  /\ store \in LeanStores
  /\ InitProcess

Worker(w) ==
    \/ worker_loop_get(w)
    \/ regenerate_map_for_trip_begin(w)
    \/ geocode_item(w)
    \/ build_map(w)
    \/ store_map_data_read(w)
    \/ store_map_data_write(w)
    \/ regenerate_map_for_trip_ready(w)
    \/ regenerate_map_for_trip_except(w)

WorkerStep == \E w \in Workers : Worker(w)

Caller(c) ==
    \/ run_server(c)
    \/ queue_geocoding(c)
    \/ start_worker_check(c)
    \/ start_worker_thread(c)
    \/ recover_stale_tasks_scan(c)
    \/ recover_stale_tasks_requeue(c)

CallerStep == \E c \in Callers : Caller(c)

Request ==
  \E c \in Callers :
    \/ \E l \in links, p \in payloads, d \in BOOLEAN : handle_upload(c, l, p, d)
    \/ \E l \in links : handle_retry_geocoding(c, l)
    \/ \E l \in links : handle_delete_trip(c, l)

Next == WorkerStep \/ CallerStep \/ Request

Spec == Init /\ [][Next]_vars

\* the itinerary data a save request carries: none left, or two items
SavedData == {EmptyData, DaysData(2)}

\* the server with the editor's save requests
NextSave ==
  \/ Next
  \/ \E c \in Callers : \E l \in links, d \in SavedData : handle_save_trip(c, l, d)

SpecSave == Init /\ [][NextSave]_vars

SpecFault == InitFault /\ [][Next]_vars

SpecConc == InitConc /\ [][Next]_vars

SpecJob == InitJob /\ [][Next]_vars

\* the worker is a thread of its own and a caller runs its handler to the end;
\* which requests arrive is left open
Fairness ==
  /\ \A w \in Workers : WF_vars(Worker(w))
  /\ \A c \in Callers : WF_vars(Caller(c))

FairSpec == InitRecovery /\ [][Next]_vars /\ Fairness

FairSpecFault == InitLive /\ [][Next]_vars /\ Fairness

\* one item of any text and category, a region hint, an answer of the
\* language model to the IATA codes that are no skip words
InitQueries ==
  /\ Parked
  /\ conv = IdleConv
  /\ tc = IdleClock
  /\ geo \in {NewGeo(<<it>>, h, a) : it \in ItemTexts,
                                      h \in {<<>>, <<"Italy">>, <<"ROMA">>},
                                      a \in {<<>>, <<"Rome", "Airport">>}}

\* an itinerary of up to MaxItems items without coordinates: places, and
\* items without any text
InitGeocode ==
  /\ Parked
  /\ conv = IdleConv
  /\ tc = IdleClock
  /\ geo \in {NewGeo(items, <<>>, <<>>) :
                items \in UNION {[1..n -> {Place, Item(<<>>, <<>>, <<>>, "meal")}] :
                                   n \in 0..MaxItems}}

\* an itinerary of up to MaxPlaces items, with a destination or without
InitMarkers ==
  /\ Parked
  /\ conv = IdleConv
  /\ tc = IdleClock
  /\ geo \in {NewGeo(items, h, <<>>) :
                items \in UNION {[1..n -> Stops] : n \in 1..MaxPlaces},
                h \in {<<>>, <<"Vienna">>, <<"Rome">>}}

\* the items of stored data: a title or none, a place, and whatever else the
\* client has stored with them, coordinates included
SavedItems ==
  {[title |-> t, location |-> <<"Trastevere">>, category |-> "meal", lat |-> lat, lng |-> lat] :
     t \in {<<>>, <<"Cafe", "Roma">>}, lat \in {NULL, "1.0"}}

\* a trip found pending: no data, empty data, or up to MaxPlaces days of up to
\* MaxPlaces items and up to MaxPlaces ideas
InitConvert ==
  /\ Parked
  /\ tc = IdleClock
  /\ geo = IdleGeo
  /\ LET Lists == UNION {[1..n -> SavedItems] : n \in 0..MaxPlaces}
         Days(n) == {[i \in 1..n |-> [day_number |-> i, items |-> f[i]]] : f \in [1..n -> Lists]}
     IN conv \in {[pc |-> "stored", data |-> d, queued |-> <<>>, items |-> <<>>] :
                   d \in {NullData, EmptyData}
                          \cup {StoredData(days, ideas) :
                                  days \in UNION {Days(n) : n \in 0..MaxPlaces}, ideas \in Lists}}

\* an itinerary of about MAX_GEOCODE_LOCATIONS places, all without coordinates
\* or all but one, and a provider that finds every place
InitCap ==
  /\ Parked
  /\ conv = IdleConv
  /\ tc = IdleClock
  /\ geo \in {[NewGeo([i \in 1..n |-> IF i = r THEN [Place EXCEPT !.lat = "0.0", !.lng = "1.0"]
                                               ELSE Place], <<>>, <<>>)
                 EXCEPT !.provider = {"found"}] :
                n \in (MAX_GEOCODE_LOCATIONS - 1)..(MAX_GEOCODE_LOCATIONS + 2),
                r \in {0, 1, MAX_GEOCODE_LOCATIONS}}

\* an itinerary of up to MaxPlaces places, each without coordinates or at one
\* of the points of a grid of latitudes and longitudes
InitZoom ==
  /\ Parked
  /\ conv = IdleConv
  /\ tc = IdleClock
  /\ geo \in {NewGeo(items, <<>>, <<>>) :
                items \in UNION {[1..n -> {Place} \cup
                                           {[Place EXCEPT !.lat = lat, !.lng = lng] :
                                              lat \in {"0.0", "0.05", "0.1", "0.5", "1.0", "2.0",
                                                       "5.0", "10.0", "12.0"},
                                              lng \in {"0.0", "1.0", "7.0"}}] :
                                   n \in 1..MaxPlaces}}

SpecClock == InitClock /\ [][NextClock]_vars

SpecZoom == InitZoom /\ [][NextGeo]_vars

\* an itinerary with or without a title, of up to MaxPlaces items (places to
\* geocode, flights from home with coordinates), and a language model that
\* answers each prompt with a usable text, a text to clean, an unusable text,
\* nothing, or an exception
InitHint ==
  /\ Parked
  /\ conv = IdleConv
  /\ tc = IdleClock
  /\ geo \in {[NewGeo(items, <<>>, <<>>) EXCEPT
                 !.title = title,
                 !.world = [destination |-> {Says(<<"Vienna">>), Says(<<"'Vienna'.">>), Says(<<>>),
                                             Says(<<"(a", "text", "of", "100", "characters)">>),
                                             Fails},
                            country |-> {Says(<<"Austria">>), Says(<<"UNKNOWN">>), Says(<<>>),
                                         Fails}]] :
                title \in {<<>>, <<"Trip">>},
                items \in UNION {[1..n -> {Place,
                                           [Item(<<"Flight", "to", "Vienna">>, <<"Rome", "(FCO)">>,
                                                 <<>>, "flight")
                                              EXCEPT !.lat = "0.0", !.lng = "1.0"]}] :
                                   n \in 0..MaxPlaces}}

SpecHint == InitHint /\ [][NextGeo]_vars

SpecConvert == InitConvert /\ [][NextConvert]_vars

SpecCap == InitCap /\ [][NextGeo]_vars

SpecQueries == InitQueries /\ [][NextGeo]_vars

SpecGeocode == InitGeocode /\ [][NextGeo]_vars

SpecMarkers == InitMarkers /\ [][NextGeo]_vars

----------------------------------------------------------------------------
(* Properties *)

Terminal == {"ready", "error"}

MaxJobs == Cardinality(Links) + MaxOps

JobIds == 1..MaxJobs

Queued(i) == i \in DOMAIN jlog

\* job i has left regenerate_map_for_trip
Ended(i) == Queued(i) /\ jlog[i].end # "none"

\* job i ended with an exception: in status error, or raising into the loop
Failed(i) == Queued(i) /\ jlog[i].end \in {"error", "raised"}

\* the step in which worker w leaves regenerate_map_for_trip
Finishing(w) == wl[w].job.id # 0 /\ wl'[w].job.id = 0

\* the row of the trip of w's job after the step
RowAfter(w) == store'[wl[w].job.link]

\* how w's job is recorded to have ended by the step
EndAfter(w) == jlog'[wl[w].job.id].end

\* the job's first status write succeeded on an existing trip
StartsProcessing(w) ==
  wpc[w] = "sleep" /\ wpc'[w] = "geocode" /\ store[wl[w].job.link].present

Raised(w) == wl[w].exc # "none" \/ wl[w].map.err = "Map could not be generated"

\* the message of that exception
Message(w) == IF wl[w].exc # "none" THEN wl[w].exc ELSE wl[w].map.msg

C4_SingleWorker ==
  /\ Cardinality({w \in Workers : Alive(w)}) <= 1
  /\ Cardinality({w \in Workers : wl[w].job.id # 0}) <= 1

\* C5: no job is handed out twice, a job that was handed out is no longer on
\* the queue, and every job put on the queue is eventually handed to the worker.
C5_ConsumedExactlyOnce ==
  /\ [](\A i \in DOMAIN jlog : jlog[i].runs <= 1)
  /\ [](\A k \in DOMAIN queue : jlog[queue[k].id].runs = 0)
  /\ \A i \in JobIds : Queued(i) ~> (Queued(i) /\ jlog[i].runs = 1)

\* two jobs were put on the queue, both have run to their end, each once
C5_Witness ==
  /\ Len(jlog) >= 2
  /\ queue = <<>>
  /\ \A i \in DOMAIN jlog : jlog[i].runs = 1 /\ jlog[i].end # "none"

Stale(l) == store[l].present /\ store[l].status \in {"pending", "processing"}

Settled(l) == ~store[l].present \/ store[l].status \in Terminal

\* start_worker has started the thread and is about to scan the store
Scanning == \E c \in Callers : cpc[c] = "probe"

Unfinished ==
  {queue[k] : k \in DOMAIN queue} \cup {wl[w].job : w \in {v \in Workers : wl[v].job.id # 0}}

\* C7: whenever a job for an existing trip is waiting in the queue or is being
\* processed, the trip's stored status is pending or processing.
C7_UnfinishedJobIsStale ==
  \A job \in Unfinished : store[job.link].present => Stale(job.link)

\* C8: a job that appears on the queue was put there by queue_geocoding, called
\* by a save or a retry, or by recovery for a trip whose stored status is
\* pending or processing; the worker puts none.
C8_RecoveryRequeuesOnlyStale ==
  [][\A k \in DOMAIN queue' :
       queue'[k].id \notin DOMAIN jlog
         => \/ /\ queue'[k].src = "enqueue"
               /\ \E c \in Callers : cpc[c] = "put" /\ cl[c].link = queue'[k].link
            \/ /\ queue'[k].src = "recover"
               /\ \E c \in Callers : cpc[c] = "requeue"
               /\ Stale(queue'[k].link)]_vars

\* recovery has put a job for one trip and none for a trip that is ready or error
C8_Witness ==
  /\ \E i \in DOMAIN jlog : jlog[i].src = "recover"
  /\ \E l \in Links :
       /\ store[l].present
       /\ store[l].status \in Terminal
       /\ Truthy(store[l])
       /\ \A i \in DOMAIN jlog : jlog[i].link # l
  /\ \A c \in Callers : cpc[c] = "ready"

\* no item of w's job has been resolved
NoHit(w) == \A i \in DOMAIN wl[w].coords : ~wl[w].coords[i]

\* the items w's job has handed to _geocode_item
Attempted(w) == wl[w].k - 1

\* C9: a job with at least 3 unresolved items for which every lookup returns no
\* result attempts exactly 3 items and ends in status ready with the map data
\* that have no marker.
C9_BreakerEndsReadyWithEmptyMap ==
  [][\A w \in Workers :
       (/\ Finishing(w)
        /\ wl[w].exc = "none"
        /\ NoHit(w)
        /\ Len(items_to_geocode(wl[w].job.items)) >= BreakerThreshold)
         => /\ Attempted(w) = BreakerThreshold
            /\ wl[w].map.markers = {}
            /\ wl[w].map.err = "No locations could be geocoded"
            /\ EndAfter(w) = "ready"
            /\ RowAfter(w).present
                 => (RowAfter(w).status = "ready" /\ RowAfter(w).error = NULL)]_vars

\* a job of 5 items has stored its empty map after 3 attempts, before writing ready
C9_Witness ==
  \E w \in Workers :
    /\ wpc[w] = "ready"
    /\ Len(wl[w].job.items) = MaxItems
    /\ Attempted(w) = BreakerThreshold
    /\ NoHit(w)
    /\ store[wl[w].job.link].map = wl[w].map
    /\ wl[w].map.markers = {}

\* C10 (as stated): a job in which the breaker tripped leaves the trip in status
\* error with an error text.
C10_BreakerEndsInError ==
  [][\A w \in Workers :
       (Finishing(w) /\ BreakerTripped(wl[w].fail) /\ RowAfter(w).present)
         => (RowAfter(w).status = "error" /\ RowAfter(w).error # NULL)]_vars

\* C10 (amended): once the breaker has tripped the job attempts no further
\* item; it builds its map data from the items resolved so far and leaves the
\* trip in status ready without error text.
C10_BreakerEndsReady ==
  [][\A w \in Workers :
       /\ (wpc[w] = "geocode" /\ BreakerTripped(wl[w].fail))
            => /\ wpc'[w] \in {"geocode", "store"}
               /\ wl'[w].k = wl[w].k
               /\ wl'[w].coords = wl[w].coords
       /\ (Finishing(w) /\ BreakerTripped(wl[w].fail) /\ wl[w].exc = "none")
            => /\ wl[w].map = create_map_data(wl[w].kept, wl[w].job.id)
               /\ wl[w].kept \subseteq {i \in DOMAIN wl[w].coords : wl[w].coords[i]}
               /\ EndAfter(w) = "ready"
               /\ RowAfter(w).present
                    => (RowAfter(w).status = "ready" /\ RowAfter(w).error = NULL)]_vars

\* the breaker tripped after a hit and 3 misses with an item left; the job has
\* stored a map with the one marker and is about to write ready
C10_Witness ==
  \E w \in Workers :
    /\ wpc[w] = "ready"
    /\ BreakerTripped(wl[w].fail)
    /\ Attempted(w) < Len(wl[w].job.items)
    /\ wl[w].map.markers # {}
    /\ store[wl[w].job.link].map = wl[w].map

InRequest(c) == cl[c].link # "none"

\* C13: queue_geocoding only puts the job and returns, also when no worker
\* thread is alive: the enqueuing thread never starts the thread, nor gets
\* to the connectivity probe and the recovery scan.
C13_EnqueueOnlyPuts ==
  \A c \in Callers : InRequest(c) => cpc[c] \notin {"create_thread", "probe", "requeue"}

\* C14: whenever a job sets the status of a trip to ready, the map data of
\* that same job are stored for the trip.
C14_ReadyOnlyAfterMapStored ==
  [][\A w \in Workers :
       (Finishing(w) /\ EndAfter(w) = "ready" /\ RowAfter(w).present)
         => RowAfter(w).map.job = wl[w].job.id]_vars

\* worker w is at work on a job for trip l
Running(w, l) == wl[w].job.id # 0 /\ wl[w].job.link = l

\* C15: a retry for a trip whose job is running leaves the worker and its
\* job alone, sets the status to pending and puts one job on the queue;
\* every job runs to a terminal status of its own, the later one after the
\* earlier one has ended.
C15_RetryDoesNotInterrupt ==
  /\ [][\A c \in Callers : \A l \in Links : \A w \in Workers :
          (handle_retry_geocoding(c, l) /\ Running(w, l))
            => /\ wpc' = wpc
               /\ wl' = wl
               /\ queue' = queue
               /\ store'[l].status = "pending"
               /\ cpc'[c] = "put"]_vars
  /\ [][\A c \in Callers :
          (cpc[c] = "put" /\ cpc'[c] # "put")
            => /\ wpc' = wpc
               /\ wl' = wl
               /\ Len(queue') = Len(queue) + 1
               /\ queue'[Len(queue')].link = cl[c].link]_vars
  /\ [](\A i \in DOMAIN jlog : \A j \in DOMAIN jlog :
          (i < j /\ jlog[j].runs > 0) => Ended(i))
  /\ \A i \in JobIds : Queued(i) ~> (Ended(i) /\ jlog[i].end \in Terminal)

\* the job recovery has put for a trip without items is running; a retry has
\* set the status back to pending and its job waits on the queue
C15_Witness ==
  \E w \in Workers :
    /\ wpc[w] = "geocode"
    /\ Running(w, "t1")
    /\ wl[w].job.src = "recover"
    /\ store["t1"].status = "pending"
    /\ store["t1"].data = DaysData(0)
    /\ Len(queue) = 1
    /\ queue[1].link = "t1"
    /\ queue[1].src = "enqueue"

\* the item the mapper is making requests for
Current == geo.items[geo.todo[geo.k]]

\* the item the mapper has just finished, as it is now
Finished == geo.items[geo.last.item]

\* the place of the first query of qs that reads t (0: none)
FirstAt(qs, t) ==
  IF \E i \in 1..Len(qs) : qs[i] = t
  THEN CHOOSE i \in 1..Len(qs) : qs[i] = t /\ \A j \in 1..(i - 1) : qs[j] # t
  ELSE 0

\* C12: an item all of whose queries returned zero results, with no timeout
\* and no service error, leaves the failure counter as it was.
C12_ZeroResultsAreNotCounted ==
  geo.last.item # 0 /\ geo.last.outs = {"zero_results"} => geo.last.after = geo.last.before

\* C16: the query list of an item whose location name or title is not empty
\* is not empty, flights and items without an address included.
C16_QueriesNonEmpty ==
  geo.last.item # 0 /\ (Finished.name # <<>> \/ Finished.title # <<>>)
    => geo.last.queries # <<>>

\* C17: for an item with an address, of any category, title and location
\* name, the first query tried is that address.
C17_AddressFirst ==
  geo.pc = "try" /\ Current.address # <<>> => geo.queries[1] = Current.address

\* a flight with an address, a title and a location name, whose address has
\* been tried without a result
C17_Witness ==
  /\ geo.pc = "try"
  /\ geo.q = 2
  /\ Current.category = "flight"
  /\ Current.address = <<"Via", "Appia", "1">>
  /\ Current.title # <<>>
  /\ Current.name # <<>>

\* "<city> International Airport" and "<city> Airport" both come before the
\* first query that reads the bare location name
AirportFormsFirst(item, qs) ==
  /\ FirstAt(qs, city_of(item.name) \o <<"International", "Airport">>) \in 1..(FirstAt(qs, item.name) - 1)
  /\ FirstAt(qs, city_of(item.name) \o <<"Airport">>) \in 1..(FirstAt(qs, item.name) - 1)

NameInTitle(item) ==
  /\ item.category # "flight"
  /\ item.title # <<>>
  /\ item.name # <<>>
  /\ Contains(lower(item.title), lower(item.name))

C20_MarkersAreTheResolvedItems ==
  geo.pc = "done"
    => /\ \A i \in 1..Len(geo.items) :
            FirstAt(geo.markers, i) # 0
              <=> /\ geo.items[i].lat # NULL
                  /\ geo.items[i].lng # NULL
                  /\ ~geo.items[i].home
                  /\ ~is_origin_flight(geo.items[i], geo.hint)
       /\ \A j \in 1..(Len(geo.markers) - 1) : geo.markers[j] < geo.markers[j + 1]

\* a place geocoded in this run has a marker; the flight from home before
\* it, with coordinates, has none
C20_Witness ==
  /\ geo.pc = "done"
  /\ Len(geo.items) = 2
  /\ geo.items[1].category = "flight"
  /\ geo.items[1].lat # NULL
  /\ is_origin_flight(geo.items[1], geo.hint)
  /\ geo.last.item = 2
  /\ geo.markers = <<2>>

\* w's job has its map data from create_map_data, which kept no item
KeptNothing(l) == l.job.id # 0 /\ l.map.job = l.job.id /\ l.map.msg = "none" /\ l.kept = {}

\* C21: when no item of the itinerary is resolved and kept (no home location,
\* no origin flight), create_map_data returns center (0, 0), zoom 2, no marker
\* and an error text, and the job ends with the status ready, not error.
C21_EmptyMapEndsReady ==
  [][\A w \in Workers :
       /\ (wpc[w] = "geocode" /\ KeptNothing(wl'[w]))
            => /\ wl'[w].map.view = "center 0, 0 zoom 2"
               /\ wl'[w].map.markers = {}
               /\ wl'[w].map.err \notin {"none", ""}
               /\ wpc'[w] = "store"
       /\ (Finishing(w) /\ wl[w].exc = "none" /\ KeptNothing(wl[w]))
            => /\ EndAfter(w) = "ready"
               /\ RowAfter(w).present
                    => (RowAfter(w).status = "ready" /\ RowAfter(w).error = NULL)]_vars

\* a job of two items, both resolved and none kept, has stored its map data
\* without markers and is about to write ready
C21_Witness ==
  \E w \in Workers :
    /\ wpc[w] = "ready"
    /\ Len(wl[w].coords) = 2
    /\ \A i \in 1..2 : wl[w].coords[i]
    /\ KeptNothing(wl[w])
    /\ store[wl[w].job.link].map = wl[w].map
    /\ wl[w].map.err = "No locations could be geocoded"

\* the differences between two coordinates of the items with a marker
Spans ==
  {hundredths(geo.items[i].lat) - hundredths(geo.items[j].lat) :
     i, j \in {geo.markers[m] : m \in DOMAIN geo.markers}}
  \cup {hundredths(geo.items[i].lng) - hundredths(geo.items[j].lng) :
          i, j \in {geo.markers[m] : m \in DOMAIN geo.markers}}

\* the larger of the latitude span and the longitude span
MaxSpan == CHOOSE x \in Spans : \A y \in Spans : y <= x

\* C22: for map data with markers the zoom is decided by the larger of the
\* two spans alone: 5 above 10 degrees, 12 below 0.1 degrees, and between two
\* spans the larger never has the larger zoom (spans in hundredths of a degree).
C22_ZoomBySpan ==
  geo.pc = "done" /\ geo.markers # <<>>
    => /\ geo.map.zoom \in 5..12
       /\ MaxSpan > 1000 => geo.map.zoom = 5
       /\ MaxSpan < 10 => geo.map.zoom = 12
       /\ \A s \in {0, 5, 9, 10, 11, 50, 51, 100, 101, 200, 201, 500, 501, 1000, 1001, 1300} :
            /\ s >= MaxSpan => zoom_of(s) <= geo.map.zoom
            /\ s <= MaxSpan => zoom_of(s) >= geo.map.zoom

\* two places 12 degrees of latitude and 1 degree of longitude apart: zoom 5
C22_Witness ==
  /\ geo.pc = "done"
  /\ geo.markers = <<1, 2>>
  /\ geo.items[1].lat = "12.0"
  /\ geo.items[2].lat = "0.0"
  /\ geo.items[1].lng = "0.0"
  /\ geo.items[2].lng = "1.0"
  /\ geo.map.zoom = 5

\* the mapper has resolved its region hint
Resolved(g) == g.cached_region_itinerary_id = 1 /\ g.cached_region_hint.type = "str"

\* C29: once the mapper has resolved the hint of its itinerary, whatever the
\* result, every later request returns that value and no further call to the
\* language model is made for it.
C29_HintResolvedOnce ==
  /\ [](geo.pc \notin {"off", "start"} => Resolved(geo) /\ geo.cached_region_hint.text = geo.hint)
  /\ [](geo.pc = "done" => geo.destination = geo.hint)
  /\ [][Resolved(geo)
          => /\ geo'.asked = geo.asked
             /\ geo'.cached_region_hint = geo.cached_region_hint
             /\ geo'.hint = geo.hint]_vars

\* both calls failed in the first run; the empty hint was returned again to
\* create_map_data and to both requests of a second run
C29_Witness ==
  /\ geo.pc = "done"
  /\ geo.run = 2
  /\ Len(geo.asked) = 2
  /\ geo.asked[1].answer = Fails
  /\ geo.asked[2].answer = Fails
  /\ geo.hint = <<>>
  /\ geo.destination = <<>>

\* the first call was made and gave nothing to use: an exception, or a text
\* that is empty once cleaned
FirstCallUnusable ==
  /\ Resolved(geo)
  /\ geo.asked # <<>>
  /\ extract_destination_with_llm(geo.asked[1].answer) \in {Fails, Says(<<>>)}

\* an answer to the second call that names a country
NamesCountry(answer) ==
  answer.type = "str" /\ answer.text \notin {<<>>, <<"UNKNOWN">>}

\* the loop of geocode_locations has run to its end or to the breaker, and
\* the map data are built from what it left
JobGoesOn ==
  /\ geo.pc \in {"loop", "try", "map", "done", "start"}
  /\ geo.pc \in {"map", "done"} => (geo.k > Len(geo.todo) \/ BreakerTripped(geo.failures))
  /\ geo.pc = "done" => geo.map = map_data(geo.items, markers_of(geo.items, geo.hint))

\* C30 (as stated): whenever the first call errors or returns nothing usable,
\* a second call with the title alone is made; when that fails too the hint is
\* empty; the job geocodes its items all the same.
C30_SecondCallAlwaysMade ==
  FirstCallUnusable
    => /\ Len(geo.asked) = 2
       /\ geo.asked[2].prompt = "country"
       /\ ~NamesCountry(geo.asked[2].answer) => geo.hint = <<>>
       /\ JobGoesOn

\* C30 (amended): the second call is made when the itinerary has a title, and
\* its answer is the hint when it names a country; without a title no second
\* call is made; in both cases a failure leaves the hint empty and the job
\* geocodes its items all the same.
C30_SecondCallMadeForTitle ==
  FirstCallUnusable
    => /\ geo.title # <<>>
            => /\ Len(geo.asked) = 2
               /\ geo.asked[2].prompt = "country"
               /\ geo.hint = IF NamesCountry(geo.asked[2].answer)
                              THEN geo.asked[2].answer.text ELSE <<>>
       /\ geo.title = <<>> => (Len(geo.asked) = 1 /\ geo.hint = <<>>)
       /\ JobGoesOn

\* both calls raised for a trip with a title; the hint is empty and the place
\* of the itinerary has been geocoded and has its marker
C30_Witness ==
  /\ geo.pc = "done"
  /\ geo.run = 1
  /\ geo.title # <<>>
  /\ Len(geo.asked) = 2
  /\ geo.asked[1].answer = Fails
  /\ geo.asked[2].answer = Fails
  /\ geo.hint = <<>>
  /\ geo.last.item = 1
  /\ geo.markers = <<1>>

Flights ==
  {i \in 1..Len(geo.items) : /\ geo.items[i].category = "flight"
                             /\ has_coordinates(geo.items[i])
                             /\ ~geo.items[i].home}

\* C24 as stated: a flight has no marker when its location matches a home
\* airport or home city, or when it does not match the destination; an item
\* that is no flight is never left out as an origin flight.
C24_OriginByHomeOrNotDestination ==
  geo.pc = "done"
    => /\ \A i \in Flights :
            (\/ at_home(lower(geo.items[i].name))
             \/ ~at_destination(lower(geo.items[i].name), lower(geo.destination)))
              => FirstAt(geo.markers, i) = 0
       /\ \A i \in 1..Len(geo.items) :
            (/\ geo.items[i].category # "flight"
             /\ has_coordinates(geo.items[i])
             /\ ~geo.items[i].home) => FirstAt(geo.markers, i) # 0

\* C24: a flight has no marker exactly when a destination is known, its
\* location matches a home airport or home city, and its location does not
\* match the destination; an item that is no flight is never left out as an
\* origin flight.
C24_OriginByHomeAndNotDestination ==
  geo.pc = "done"
    => /\ \A i \in Flights :
            FirstAt(geo.markers, i) = 0
              <=> /\ geo.destination # <<>>
                  /\ at_home(lower(geo.items[i].name))
                  /\ ~at_destination(lower(geo.items[i].name), lower(geo.destination))
       /\ \A i \in 1..Len(geo.items) :
            (/\ geo.items[i].category # "flight"
             /\ has_coordinates(geo.items[i])
             /\ ~geo.items[i].home) => FirstAt(geo.markers, i) # 0

\* on a trip to Vienna the flight at Rome (FCO) has no marker, and the flight
\* at Madrid, which matches neither home nor destination, has one
C24_Witness ==
  /\ geo.pc = "done"
  /\ geo.destination = <<"Vienna">>
  /\ Len(geo.items) = 2
  /\ geo.items[1] = Landed(<<"Rome", "(FCO)">>)
  /\ geo.items[2] = Landed(<<"Madrid">>)
  /\ geo.markers = <<2>>

\* C25: jobs wait in the order they were put (their numbers are given in that
\* order); the worker takes the job put first among those waiting, and takes
\* it only when every job put before it has been taken and has ended.
C25_FirstInFirstOut ==
  /\ [](\A k \in 1..(Len(queue) - 1) : queue[k].id < queue[k + 1].id)
  /\ [][\A j \in DOMAIN jlog :
          (jlog[j].runs = 0 /\ jlog'[j].runs = 1)
            => /\ queue # <<>> /\ Head(queue).id = j
               /\ \A k \in DOMAIN queue' : queue'[k].id > j
               /\ \A i \in 1..(j - 1) : jlog[i].runs = 1 /\ Ended(i)]_vars
  /\ [](\A i \in DOMAIN jlog : Ended(i) => \A j \in DOMAIN jlog : j > i /\ jlog[j].runs > 0
                                              => \A w \in Workers : wl[w].job.id # i)

\* three jobs were put; the first has ended, the second is running and the
\* third waits
C25_Witness ==
  /\ Len(jlog) = 3
  /\ Ended(1)
  /\ jlog[2].runs = 1 /\ ~Ended(2)
  /\ \E w \in Workers : wl[w].job.id = 2
  /\ Len(queue) = 1 /\ queue[1].id = 3

\* the items the loop of geocode_locations is through with
Through == geo.k - 1

\* the number of items at the end of the attempted ones that are all unresolved
Trailing ==
  CHOOSE m \in 0..Through :
    /\ \A j \in (Through - m + 1)..Through : ~has_coordinates(geo.items[geo.todo[j]])
    /\ m < Through => has_coordinates(geo.items[geo.todo[Through - m]])

\* C26: in a job (a new mapper, its one run) the counter of consecutive
\* failures is the number of unresolved items at the end of the attempted
\* ones: a resolved item has set it to 0 and an unresolved one has added 1.
\* The loop leaves items unattempted only with the last 3 attempted items
\* unresolved.
C26_CounterCountsTrailingFailures ==
  geo.run = 1
    => /\ geo.failures = Trailing
       /\ geo.last.item # 0
            => geo.last.after = IF has_coordinates(Finished) THEN 0 ELSE geo.last.before + 1
       /\ (geo.pc \in {"map", "done"} /\ geo.k <= Len(geo.todo))
            => /\ geo.failures = BreakerThreshold
               /\ \A j \in (Through - 2)..Through : ~has_coordinates(geo.items[geo.todo[j]])

\* five items were attempted: the second stayed unresolved between two
\* resolved ones, and the last two stayed unresolved
C26_Witness ==
  /\ geo.run = 1
  /\ geo.pc = "done"
  /\ Len(geo.todo) = 5
  /\ Through = 5
  /\ has_coordinates(geo.items[1])
  /\ ~has_coordinates(geo.items[2])
  /\ has_coordinates(geo.items[3])
  /\ ~has_coordinates(geo.items[4])
  /\ ~has_coordinates(geo.items[5])
  /\ geo.failures = 2

\* C27: the requests for an item go through its queries from the first on,
\* one by one; the request that gives a result is the last for the item; a
\* request without a result moves on to the next query, or past the last one
\* to the next item, and the run goes on.
C27_QueriesInOrderUntilResult ==
  /\ [][geo'.pc = "try" /\ geo.pc # "try" => geo'.q = 1 /\ geo'.queries # <<>>]_vars
  /\ [][geo.pc = "try"
          => /\ geo.q \in 1..Len(geo.queries)
             /\ IF has_coordinates(geo'.items[geo.todo[geo.k]])
                THEN geo'.pc = "loop" /\ geo'.k = geo.k + 1
                ELSE /\ geo'.items = geo.items
                     /\ IF geo.q < Len(geo.queries)
                        THEN /\ geo'.pc = "try"
                             /\ geo'.k = geo.k
                             /\ geo'.queries = geo.queries
                             /\ geo'.q = geo.q + 1
                        ELSE geo'.pc = "loop" /\ geo'.k = geo.k + 1]_vars
  /\ [](geo.pc \in {"loop", "try"}
          => \A j \in geo.k..Len(geo.todo) : \A h \in 1..(j - 1) : geo.todo[h] # geo.todo[j])

\* an item with three queries or more got its result after a request that
\* timed out
C27_Witness ==
  /\ geo.pc = "loop"
  /\ geo.last.item = 1
  /\ Len(geo.last.queries) >= 3
  /\ geo.last.outs = {"timeout", "found"}
  /\ has_coordinates(Finished)

\* C28: a step of a geocoding run changes an item only when the item had not
\* both coordinates and the step is a request for it that gave a result: the
\* item then has both coordinates, so it is written once and no more. Every
\* other item, and an item whose requests give no result, stays as it is. An
\* address the item has is kept.
C28_WrittenOnceAddressKept ==
  [][/\ Len(geo'.items) = Len(geo.items)
     /\ \A i \in DOMAIN geo.items :
          geo'.items[i] # geo.items[i]
            => /\ ~has_coordinates(geo.items[i])
               /\ has_coordinates(geo'.items[i])
               /\ geo.pc = "try" /\ geo.todo[geo.k] = i
               /\ geo.items[i].address # <<>> => geo'.items[i].address = geo.items[i].address
               /\ geo'.items[i] = [geo.items[i] EXCEPT !.lat = geo'.items[i].lat,
                                                        !.lng = geo'.items[i].lng,
                                                        !.address = geo'.items[i].address]]_vars

\* the first item came with coordinates and an address and has them still;
\* the second came with an address and without coordinates and has got
\* coordinates and kept its address
C28_Witness ==
  /\ geo.pc = "done"
  /\ geo.run = 1
  /\ Len(geo.items) = 2
  /\ geo.items[1] = [Place EXCEPT !.address = <<"Via", "Appia", "1">>, !.lat = "2.0", !.lng = "7.0"]
  /\ geo.items[2] = [Place EXCEPT !.address = <<"Via", "Appia", "1">>,
                                  !.lat = Found.lat, !.lng = Found.lng]
  /\ geo.last.item = 2

\* the number of items of the stored days before day a
RECURSIVE Before(_)
Before(a) == IF a <= 1 THEN 0 ELSE Before(a - 1) + Len(conv.data.days[a - 1].items)

\* C31: the payload recovery builds from stored days and ideas has item b of
\* day a at place (items of the days before a) + b and the ideas after all
\* days' items, nothing else, every coordinate unset; the job's itinerary has
\* the same items, none with coordinates. For data that are null or empty
\* nothing is put on the queue.
C31_RecoveredPayloadIsFlat ==
  conv.pc \in {"skipped", "queued", "job"}
    => IF conv.data.kind # "itinerary"
       THEN conv.pc = "skipped" /\ conv.queued = <<>>
       ELSE LET days == conv.data.days
                ideas == conv.data.ideas
                all == Before(Len(days) + 1)
                items == conv.queued[1].items
            IN /\ conv.pc # "skipped"
               /\ Len(conv.queued) = 1
               /\ Len(items) = all + Len(ideas)
               /\ \A a \in DOMAIN days : \A b \in DOMAIN days[a].items :
                    /\ items[Before(a) + b].title = days[a].items[b].title
                    /\ items[Before(a) + b].location_name = days[a].items[b].location
                    /\ items[Before(a) + b].day_number = days[a].day_number
               /\ \A j \in DOMAIN ideas :
                    /\ items[all + j].title = ideas[j].title
                    /\ items[all + j].location_name = ideas[j].location
               /\ \A i \in DOMAIN items :
                    items[i].location_lat = NULL /\ items[i].location_lon = NULL
               /\ conv.pc = "job"
                    => /\ Len(conv.items) = Len(items)
                       /\ \A i \in DOMAIN items :
                            /\ conv.items[i].title = items[i].title
                            /\ conv.items[i].lat = NULL /\ conv.items[i].lng = NULL

\* two days and an idea were stored, the first item with coordinates and the
\* idea without a title: the job has the three items in that order, none with
\* coordinates
C31_Witness ==
  /\ conv.pc = "job"
  /\ conv.data.kind = "itinerary"
  /\ Len(conv.data.days) = 2
  /\ Len(conv.data.days[1].items) = 1 /\ conv.data.days[1].items[1].lat = "1.0"
  /\ Len(conv.data.days[2].items) = 1 /\ conv.data.days[2].items[1].title = <<"Cafe", "Roma">>
  /\ Len(conv.data.ideas) = 1 /\ conv.data.ideas[1].title = <<>>
  /\ Len(conv.items) = 3
  /\ conv.items[3].title = <<>>
  /\ \A i \in 1..3 : ~has_coordinates(conv.items[i])

\* the jobs for trip l ever put on the queue
JobsFor(log, l) == {i \in DOMAIN log : log[i].link = l}

\* C32: a call of queue_geocoding puts one job for its trip, and the rest of
\* the call (start_worker, and the recovery scan when the call starts the
\* worker) puts no further job for that trip.
C32_OneCallOneJob ==
  [][\A c \in Callers :
       /\ (cpc[c] = "put" /\ cpc'[c] # "put")
            => Cardinality(JobsFor(jlog', cl[c].link))
                 = Cardinality(JobsFor(jlog, cl[c].link)) + 1
       /\ (/\ cpc[c] \in {"start_worker", "create_thread", "probe", "requeue"}
           /\ cl[c].link # "none"
           /\ cpc'[c] # cpc[c])
            => JobsFor(jlog', cl[c].link) = JobsFor(jlog, cl[c].link)]_vars

\* worker w writes the map data of its job with this step
StoresMap(w) == wpc[w] = "store_write" /\ wpc'[w] # "store_write"

\* the trip record of w's job holds the data of a save request, which are not
\* the data w has read
SavedSinceRead(w) ==
  /\ store[wl[w].job.link].present
  /\ store[wl[w].job.link].data \in SavedData
  /\ store[wl[w].job.link].data # wl[w].snap

\* C33: when the worker writes a job's map data, the itinerary content the
\* trip record holds at that time, saved by a request since the worker read
\* the record, is still there after the write.
C33_SavedContentSurvives ==
  [][\A w \in Workers :
       (StoresMap(w) /\ SavedSinceRead(w))
         => store'[wl[w].job.link].data = store[wl[w].job.link].data]_vars

\* C34: the write of a job's map data leaves the trip's status, error text,
\* itinerary content and stored counts as they were before it.
C34_OnlyMapDataWritten ==
  [][\A w \in Workers :
       StoresMap(w)
         => LET before == store[wl[w].job.link]
                after == store'[wl[w].job.link]
            IN /\ after.status = before.status
               /\ after.error = before.error
               /\ after.data = before.data
               /\ after.activities = before.activities]_vars

\* nothing is under way for trip l: no job for it waits or runs, and no
\* request is about to put one
Quiet(l) ==
  /\ \A k \in DOMAIN queue : queue[k].link # l
  /\ \A w \in Workers : wl[w].job.link # l
  /\ \A c \in Callers : cpc[c] = "put" => cl[c].link # l

\* the job put last for trip l
LastJob(l) == CHOOSE i \in JobsFor(jlog, l) : \A j \in JobsFor(jlog, l) : j <= i

C36_ErrorTextOnlyInError ==
  \A l \in Links :
    store[l].present
      => /\ store[l].status \in Statuses
         /\ store[l].error # NULL => store[l].status = "error"

\* C37: in a job (a mapper's first run) the items to attempt are at most
\* MAX_GEOCODE_LOCATIONS, in itinerary order, all without coordinates at the
\* start, and an item without coordinates is left out only when
\* MAX_GEOCODE_LOCATIONS items before it are in; no more items are attempted
\* than that, and an item that is left out is never changed.
C37_AtMostFiftyAttempted ==
  /\ [][(geo.pc = "start" /\ geo.run = 1)
          => /\ Len(geo'.todo) <= MAX_GEOCODE_LOCATIONS
             /\ \A j \in DOMAIN geo'.todo : ~has_coordinates(geo.items[geo'.todo[j]])
             /\ \A j \in 1..(Len(geo'.todo) - 1) : geo'.todo[j] < geo'.todo[j + 1]
             /\ \A i \in DOMAIN geo.items :
                  (~has_coordinates(geo.items[i]) /\ FirstAt(geo'.todo, i) = 0)
                    => /\ Len(geo'.todo) = MAX_GEOCODE_LOCATIONS
                       /\ \A j \in DOMAIN geo'.todo : geo'.todo[j] < i]_vars
  /\ [](geo.run = 1 => geo.k - 1 <= MAX_GEOCODE_LOCATIONS)
  /\ [][(geo.run = 1 /\ geo'.run = 1)
          => \A i \in DOMAIN geo.items :
               geo'.items[i] # geo.items[i] => FirstAt(geo.todo, i) # 0]_vars

\* of 52 places the first came with coordinates: the run has attempted the
\* 50 places after it and found them, and the last place is left without
\* coordinates
C37_Witness ==
  /\ geo.pc = "done"
  /\ geo.run = 1
  /\ Len(geo.items) = MAX_GEOCODE_LOCATIONS + 2
  /\ geo.items[1].lat = "0.0"
  /\ Len(geo.todo) = MAX_GEOCODE_LOCATIONS
  /\ geo.k = MAX_GEOCODE_LOCATIONS + 1
  /\ geo.items[MAX_GEOCODE_LOCATIONS + 1].lat = Found.lat
  /\ ~has_coordinates(geo.items[MAX_GEOCODE_LOCATIONS + 2])

====
